---- MODULE Spec2Model ----
(***************************************************************************)
(* Model of the tracker-agent backend:                                     *)
(*   - the orchestrator loop of app/services/agents.py (run_orchestrator), *)
(*   - the result extraction of app/services/llm.py                        *)
(*     (generate_jira_updates),                                            *)
(*   - the per-track loop of app/routes/generate.py (generate_preview),    *)
(*   - the row parser of app/services/parser.py (parse_sheet_rows),        *)
(*   - the sheet write-back of app/routes/post.py (update_sheet_summary).  *)
(*                                                                         *)
(* Texts are sequences of lexemes.  Whitespace and the backtick are        *)
(* single-character lexemes; every other lexeme (a JSON string literal, a  *)
(* number, a word) stands for a run of characters that holds no            *)
(* whitespace and no backtick, so that strip, startswith, endswith, split  *)
(* and slicing act on lexeme sequences as they act on the characters.      *)
(***************************************************************************)
EXTENDS Integers, Sequences, FiniteSets, TLC

VARIABLES runs, ex, pv, ps, us

vars == <<runs, ex, pv, ps, us>>

(***************************************************************************)
(* Text helpers (Python str operations used by the code)                   *)
(***************************************************************************)
SP == " "
NL == "\n"
\* the backtick character (SANY cannot lex one inside a string)
BT == "~"

Whitespace == {SP, NL}

Fence == <<BT, BT, BT>>

RECURSIVE LStrip(_)
LStrip(s) ==
  IF s # <<>> /\ Head(s) \in Whitespace THEN LStrip(Tail(s)) ELSE s

RECURSIVE RStrip(_)
RStrip(s) ==
  IF s # <<>> /\ s[Len(s)] \in Whitespace
    THEN RStrip(SubSeq(s, 1, Len(s) - 1))
    ELSE s

\* str.strip()
Strip(s) == RStrip(LStrip(s))

\* str.startswith(p)
StartsWith(s, p) == Len(s) >= Len(p) /\ SubSeq(s, 1, Len(p)) = p

\* str.endswith(p)
EndsWith(s, p) ==
  Len(s) >= Len(p) /\ SubSeq(s, Len(s) - Len(p) + 1, Len(s)) = p

\* the positions of "\n" in s
NewlinesOf(s) == {i \in 1..Len(s) : s[i] = NL}

FirstNewline(s) == CHOOSE i \in NewlinesOf(s) : \A j \in NewlinesOf(s) : i <= j

\* s.split("\n", 1): one part when s holds no "\n", else two
SplitFirstLine(s) ==
  IF NewlinesOf(s) = {}
    THEN <<s>>
    ELSE <<SubSeq(s, 1, FirstNewline(s) - 1),
           SubSeq(s, FirstNewline(s) + 1, Len(s))>>

(***************************************************************************)
(* Outcomes of a call: a returned text or a raised exception               *)
(***************************************************************************)
Return(t) == [kind |-> "return", text |-> t, error |-> ""]
Raise(e) == [kind |-> "raise", text |-> <<>>, error |-> e]

\* exception types the code can end with
APIError == "anthropic.APIError"
IndexError == "IndexError"
KeyError == "KeyError"
NonConvergence == "RuntimeError: Orchestrator did not converge within max iterations"

(***************************************************************************)
(* Content blocks and replies of the model service                         *)
(***************************************************************************)
TextBlock(t) == [type |-> "text", text |-> t]
ToolUseBlock(id, name, input) ==
  [type |-> "tool_use", id |-> id, name |-> name, input |-> input]

\* a reply of client.messages.create: a raised API error, or a message
Reply(sr, c) == [status |-> "ok", stop_reason |-> sr, content |-> c]
ReplyError == [status |-> "error", stop_reason |-> "", content |-> <<>>]
NoResponse == [status |-> "none", stop_reason |-> "", content |-> <<>>]

HasToolUse(c) == \E i \in 1..Len(c) : c[i].type = "tool_use"

(***************************************************************************)
(* Sub-agents and the dispatch table (agents.py)                           *)
(***************************************************************************)
\* response.content[0].text of a sub-agent's model call
SubAgentText(sub) ==
  IF sub.status = "error" THEN Raise(APIError)
  ELSE IF sub.content = <<>> THEN Raise(IndexError)
  ELSE Return(sub.content[1].text)

_run_extract_facts(sub) == SubAgentText(sub)
_run_summarize_facts(sub) == SubAgentText(sub)
_run_format_updates(sub) == SubAgentText(sub)

\* the input keys each handler of the dispatch table reads
_TOOL_HANDLERS ==
  [extract_facts |-> {"milestones_json", "notes_text"},
   summarize_facts |-> {"extracted_facts_json"},
   format_updates |-> {"summarized_json"}]

\* _TOOL_HANDLERS.get(name) is not None
HasHandler(name) == name \in DOMAIN _TOOL_HANDLERS

\* variant: lambdas that read their keys with inputs.get(key), so that a
\* missing field reaches the sub-agent as None
CallHandler_GetDefault(name, input, sub) ==
  IF name = "extract_facts" THEN _run_extract_facts(sub)
  ELSE IF name = "summarize_facts" THEN _run_summarize_facts(sub)
  ELSE _run_format_updates(sub)

\* handler(block.input): the lambda reads its keys, then runs the sub-agent
CallHandler(name, input, sub) ==
  IF ~(_TOOL_HANDLERS[name] \subseteq DOMAIN input) THEN Raise(KeyError)
  ELSE IF name = "extract_facts" THEN _run_extract_facts(sub)
  ELSE IF name = "summarize_facts" THEN _run_summarize_facts(sub)
  ELSE _run_format_updates(sub)

\* whether handler(block.input) reaches client.messages.create
HandlerCallsModel(name, input) == _TOOL_HANDLERS[name] \subseteq DOMAIN input

\* json.dumps({"error": f"Unknown tool: {block.name}"})
UnknownToolPayload(name) ==
  <<"{", "\"error\"", ":", SP, "\"Unknown tool: " \o name \o "\"", "}">>

ToolResult(id, content) ==
  [type |-> "tool_result", tool_use_id |-> id, content |-> content]

(***************************************************************************)
(* The model doubles: what the model service may answer                    *)
(***************************************************************************)
\* number of leading turns of a run in which the model's reply (and the
\* replies to the sub-agents of that turn) is unconstrained; later turns
\* are answered by the fixed replies of ScriptedReplies
MaxFreeTurns == 2

TextA == <<SP, "a">>
TextB == <<"b", NL>>

CompleteInput ==
  [extract_facts |-> [milestones_json |-> "M", notes_text |-> "N"],
   summarize_facts |-> [extracted_facts_json |-> "F"],
   format_updates |-> [summarized_json |-> "S"],
   no_such_tool |-> [anything |-> "X"]]

\* an input payload that lacks a required field of the tool
PartialInput ==
  [extract_facts |-> [milestones_json |-> "M"],
   summarize_facts |-> [facts |-> "F"],
   format_updates |-> [summary |-> "S"]]

ToolUse(id, name) == ToolUseBlock(id, name, CompleteInput[name])

Contents ==
  { <<TextBlock(TextA)>>,
    <<TextBlock(TextB), TextBlock(TextA)>>,
    <<ToolUse("t1", "extract_facts")>>,
    <<TextBlock(TextA), ToolUse("t1", "extract_facts"),
      ToolUse("t2", "summarize_facts")>>,
    <<ToolUse("t1", "format_updates"), ToolUse("t2", "format_updates")>>,
    <<ToolUse("t1", "no_such_tool"), ToolUse("t2", "format_updates")>>,
    <<ToolUse("t1", "summarize_facts"), ToolUse("t2", "no_such_tool")>>,
    <<ToolUseBlock("t1", "extract_facts", PartialInput["extract_facts"])>>,
    <<ToolUseBlock("t1", "summarize_facts", PartialInput["summarize_facts"])>>,
    <<ToolUse("t1", "extract_facts"),
      ToolUseBlock("t2", "format_updates", PartialInput["format_updates"])>> }

StopReasons == {"end_turn", "tool_use", "max_tokens"}

\* the contents of the replies that were cut at the output limit
CutContents ==
  { <<TextBlock(TextA)>>,
    <<TextBlock(TextB), TextBlock(TextA)>>,
    <<TextBlock(TextA), ToolUse("t1", "extract_facts"),
      ToolUse("t2", "summarize_facts")>> }

\* The stop indicator of the service: "tool_use" only with a tool-call
\* request in the reply, "end_turn" only without one; a reply cut at the
\* output limit ("max_tokens") may hold either.
FreeReplies ==
  {ReplyError} \cup
  { r \in {Reply(sr, c) : sr \in StopReasons, c \in Contents} :
      /\ r.stop_reason = "tool_use" => HasToolUse(r.content)
      /\ r.stop_reason = "end_turn" => ~HasToolUse(r.content)
      /\ r.stop_reason = "max_tokens" => r.content \in CutContents }

ScriptedReplies ==
  { Reply("tool_use", <<ToolUse("t1", "extract_facts")>>),
    Reply("end_turn", <<TextBlock(TextA)>>) }

ModelReplies(iter) ==
  IF iter < MaxFreeTurns THEN FreeReplies ELSE ScriptedReplies

SubOutput(name) == <<name \o ":output">>

\* replies to a sub-agent's model call made during turn number turn
SubReplies(turn, name) ==
  IF turn <= MaxFreeTurns
    THEN { ReplyError,
           Reply("end_turn", <<>>),
           Reply("end_turn", <<TextBlock(<<>>)>>),
           Reply("end_turn", <<TextBlock(SubOutput(name))>>) }
    ELSE { Reply("end_turn", <<TextBlock(SubOutput(name))>>) }

(***************************************************************************)
(* run_orchestrator (agents.py 197-270)                                    *)
(***************************************************************************)
max_iterations == 10

\* variant: one iteration too many (range(max_iterations + 1))
LoopContinues_OffByOne(n) == n <= max_iterations

\* for _ in range(max_iterations): another iteration after n of them
LoopContinues(n) == n < max_iterations

\* the seed user turn (a str in the code; one text block here)
SeedTurn(mj, nt) ==
  [role |-> "user", content |-> <<TextBlock(<<"Generate Jira updates", mj, nt>>)>>]

RECURSIVE ConcatText(_)
\* final_text += block.text for every block that has a text attribute
ConcatText(c) ==
  IF c = <<>> THEN <<>>
  ELSE IF "text" \in DOMAIN Head(c)
    THEN Head(c).text \o ConcatText(Tail(c))
    ELSE ConcatText(Tail(c))

\* lines 264-270
FinalText(c) == Strip(ConcatText(c))

MilestoneInputs == {"M1", "M2"}

InitRun(mj, nt) ==
  [pc |-> "model", iter |-> 0, messages |-> <<SeedTurn(mj, nt)>>,
   response |-> NoResponse, idx |-> 0, tool_results |-> <<>>,
   result |-> <<>>, error |-> "",
   replies |-> <<>>,
   handler_calls |-> <<>>, invoked |-> <<>>, sub_replies |-> <<>>]

\* lines 221-241 and 264-270: the effect of one reply of the model
ModelStep(run, reply) ==
  IF reply.status = "error"
    THEN [run EXCEPT !.iter = @ + 1, !.pc = "failed", !.error = APIError,
                     !.replies = Append(@, reply)]
  ELSE IF reply.stop_reason = "end_turn"
    THEN [run EXCEPT !.iter = @ + 1, !.response = reply, !.pc = "done",
                     !.result = FinalText(reply.content),
                     !.replies = Append(@, reply)]
  ELSE [run EXCEPT !.iter = @ + 1, !.response = reply, !.pc = "tools",
                   !.replies = Append(@, reply),
                   !.messages = Append(@, [role |-> "assistant",
                                           content |-> reply.content]),
                   !.idx = 1, !.tool_results = <<>>]

\* lines 220-241: one model turn of the loop
CallModel(r) ==
  /\ runs[r].pc = "model"
  /\ \E reply \in ModelReplies(runs[r].iter) :
       runs' = [runs EXCEPT ![r] = ModelStep(@, reply)]
  /\ UNCHANGED <<ex, pv, ps, us>>

\* variant: the result is tagged with the tool's name instead of the call id
AppendResult_TagName(results, block, content) ==
  Append(results, ToolResult(block.name, content))

\* lines 252-258
AppendResult(results, block, content) ==
  Append(results, ToolResult(block.id, content))

\* variant: the lookup _TOOL_HANDLERS[block.name] raising on a missing name
UnknownToolStep_Raise(run, block) ==
  [run EXCEPT !.pc = "failed", !.error = KeyError]

\* lines 249-258: no handler under block.name
UnknownToolStep(run, block) ==
  [run EXCEPT !.idx = @ + 1,
              !.tool_results =
                AppendResult(@, block, UnknownToolPayload(block.name))]

\* the sub-agent replies a handler call has consumed
SubCalls(run, block, sub) ==
  IF HandlerCallsModel(block.name, block.input)
    THEN Append(run.sub_replies, sub)
    ELSE run.sub_replies

\* the stage the protocol puts before a tool ("" for the first stage)
StageBefore(name) ==
  IF name = "summarize_facts" THEN "extract_facts"
  ELSE IF name = "format_updates" THEN "summarize_facts"
  ELSE ""

\* variant: a registry that rejects a call whose preceding stage has not
\* run, answering it with an error result instead of invoking the handler
HandlerStep_Ordered(run, block, sub) ==
  IF /\ StageBefore(block.name) # ""
     /\ \A k \in 1..Len(run.invoked) :
          run.invoked[k] # StageBefore(block.name)
    THEN [run EXCEPT !.idx = @ + 1,
                     !.tool_results =
                       AppendResult(@, block, <<"{", "\"error\"", ":", SP,
                                               "\"Out of order\"", "}">>)]
    ELSE LET out == CallHandler(block.name, block.input, sub) IN
      IF out.kind = "raise"
        THEN [run EXCEPT !.pc = "failed", !.error = out.error,
                         !.handler_calls = Append(@, block.id),
                         !.invoked = Append(@, block.name),
                         !.sub_replies = SubCalls(run, block, sub)]
        ELSE [run EXCEPT !.idx = @ + 1,
                         !.tool_results = AppendResult(@, block, out.text),
                         !.handler_calls = Append(@, block.id),
                         !.invoked = Append(@, block.name),
                         !.sub_replies = SubCalls(run, block, sub)]

\* lines 247-248 and 252-258: the handler runs; an exception leaves the loop
HandlerStep(run, block, sub) ==
  LET out == CallHandler(block.name, block.input, sub) IN
    IF out.kind = "raise"
      THEN [run EXCEPT !.pc = "failed", !.error = out.error,
                       !.handler_calls = Append(@, block.id),
                       !.invoked = Append(@, block.name),
                       !.sub_replies = SubCalls(run, block, sub)]
      ELSE [run EXCEPT !.idx = @ + 1,
                       !.tool_results = AppendResult(@, block, out.text),
                       !.handler_calls = Append(@, block.id),
                       !.invoked = Append(@, block.name),
                       !.sub_replies = SubCalls(run, block, sub)]

\* lines 244-258: one block of the reply
DispatchBlock(r) ==
  /\ runs[r].pc = "tools"
  /\ runs[r].idx <= Len(runs[r].response.content)
  /\ LET block == runs[r].response.content[runs[r].idx] IN
       IF block.type # "tool_use"
         THEN runs' = [runs EXCEPT ![r].idx = @ + 1]
       ELSE IF ~HasHandler(block.name)
         THEN runs' = [runs EXCEPT ![r] = UnknownToolStep(@, block)]
       ELSE \E sub \in SubReplies(runs[r].iter, block.name) :
              runs' = [runs EXCEPT ![r] = HandlerStep(@, block, sub)]
  /\ UNCHANGED <<ex, pv, ps, us>>

\* variant: the batch written over the last turn instead of appended
AppendBatch_Overwrite(run) ==
  [run EXCEPT !.messages =
     [@ EXCEPT ![Len(@)] = [role |-> "user", content |-> run.tool_results]]]

\* line 260
AppendBatch(run) ==
  [run EXCEPT !.messages =
     Append(@, [role |-> "user", content |-> run.tool_results])]

\* variant: the for loop without its else clause, falling through to the
\* extraction of the final text
LoopExhausted_FallThrough(run) ==
  [run EXCEPT !.pc = "done", !.result = FinalText(run.response.content)]

\* variant: a loop that starts the run over when the bound is reached
LoopExhausted_Restart(run) ==
  [InitRun("M1", "N1") EXCEPT !.messages = <<run.messages[1]>>]

\* lines 261-262: the else clause of the for loop
LoopExhausted(run) ==
  [run EXCEPT !.pc = "failed", !.error = NonConvergence]

\* variant: the conversation kept in a module-level list that every run
\* appends to, instead of a local of the call
FinishBatch_SharedMessages(r) ==
  /\ runs[r].pc = "tools"
  /\ runs[r].idx > Len(runs[r].response.content)
  /\ runs' = [q \in DOMAIN runs |->
       IF q = r
         THEN IF LoopContinues(runs[r].iter)
                THEN [AppendBatch(runs[r]) EXCEPT !.pc = "model"]
                ELSE LoopExhausted(AppendBatch(runs[r]))
         ELSE [runs[q] EXCEPT !.messages =
                 Append(@, [role |-> "user",
                            content |-> runs[r].tool_results])]]
  /\ UNCHANGED <<ex, pv, ps, us>>

\* lines 260-262: the batch is appended; the loop goes on or gives up
FinishBatch(r) ==
  /\ runs[r].pc = "tools"
  /\ runs[r].idx > Len(runs[r].response.content)
  /\ runs' = [runs EXCEPT ![r] =
       IF LoopContinues(runs[r].iter)
         THEN [AppendBatch(@) EXCEPT !.pc = "model"]
         ELSE LoopExhausted(AppendBatch(@))]
  /\ UNCHANGED <<ex, pv, ps, us>>

ExIdle == [pc |-> "idle"]
PvIdle == [pc |-> "idle"]
PsIdle == [pc |-> "idle"]
UsIdle == [pc |-> "idle"]

Init ==
  /\ runs \in [{1} -> {InitRun(mj, "N1") : mj \in MilestoneInputs}]
  /\ ex = ExIdle
  /\ pv = PvIdle
  /\ ps = PsIdle
  /\ us = UsIdle

Next ==
  \E r \in DOMAIN runs : CallModel(r) \/ DispatchBlock(r) \/ FinishBatch(r)

Spec == Init /\ [][Next]_vars

(***************************************************************************)
(* Properties of run_orchestrator, checked under Spec                      *)
(***************************************************************************)
Range(f) == {f[i] : i \in DOMAIN f}

RECURSIVE ToolUseIds(_)
\* the call ids of the tool-call requests of a reply, in order
ToolUseIds(c) ==
  IF c = <<>> THEN <<>>
  ELSE IF Head(c).type = "tool_use"
    THEN <<Head(c).id>> \o ToolUseIds(Tail(c))
    ELSE ToolUseIds(Tail(c))

RECURSIVE ToolUseNames(_)
ToolUseNames(c) ==
  IF c = <<>> THEN <<>>
  ELSE IF Head(c).type = "tool_use"
    THEN <<Head(c).name>> \o ToolUseNames(Tail(c))
    ELSE ToolUseNames(Tail(c))

ResultIds(c) == [i \in 1..Len(c) |-> c[i].tool_use_id]

RegisteredNames == {"extract_facts", "summarize_facts", "format_updates"}

\* the turns of a conversation that hold a batch of tool results
BatchTurns(m) == {i \in 2..Len(m) : m[i].role = "user"}

\* the loop of run r has taken a step
Stepped(r) == runs'[r] # runs[r]

\* C1: the number of model turns of a run never exceeds 10: the turn
\* counter is at most 10 in every reachable state, a run that has made 10
\* turns is never again about to call the model, and the conversation
\* never holds more than 10 assistant turns.
C1_TurnBound ==
  \A r \in DOMAIN runs :
    /\ runs[r].iter <= 10
    /\ runs[r].iter = 10 => runs[r].pc # "model"
    /\ Cardinality({i \in 1..Len(runs[r].messages) :
                      runs[r].messages[i].role = "assistant"}) <= 10

C1_Witness ==
  \E r \in DOMAIN runs : runs[r].iter = 10 /\ runs[r].pc = "failed"

\* C2: a run whose 10 turns were all answered with non-terminal replies
\* and whose 10th batch of tool results is complete (21 turns in the
\* conversation) is FAILED with the non-convergence error and has no
\* result; non-convergence is reported only then, never after fewer than
\* 10 turns; a run whose 10th turn was answered with tool-call requests
\* never ends DONE and never has a result; and a FAILED run takes no
\* further step (no retry, no restart).
C2_NonConvergence ==
  /\ [](\A r \in DOMAIN runs :
          /\ Len(runs[r].messages) = 21 =>
               /\ runs[r].pc = "failed"
               /\ runs[r].error = NonConvergence
               /\ runs[r].result = <<>>
          /\ runs[r].error = NonConvergence =>
               /\ runs[r].pc = "failed"
               /\ runs[r].iter = 10
               /\ Len(runs[r].messages) = 21
          /\ (/\ runs[r].iter = 10
              /\ runs[r].response.status = "ok"
              /\ HasToolUse(runs[r].response.content)
              /\ runs[r].pc # "tools") =>
               /\ runs[r].pc = "failed"
               /\ runs[r].result = <<>>)
  /\ [][\A r \in DOMAIN runs :
          runs[r].pc = "failed" => runs'[r] = runs[r]]_vars

C2_Witness ==
  \E r \in DOMAIN runs :
    /\ runs[r].error = NonConvergence
    /\ \A i \in 1..Len(runs[r].messages) :
         runs[r].messages[i].role = "assistant" =>
           HasToolUse(runs[r].messages[i].content)

\* C3: whenever the latest reply of the model holds no tool-call request,
\* whatever its stop indicator, the run is DONE on the step that received
\* it, with the reply's text blocks, concatenated in order and trimmed, as
\* the returned value; nothing was dispatched or appended for that reply.
C3_TerminalReplyEndsRun ==
  \A r \in DOMAIN runs :
    (runs[r].response.status = "ok" /\ ~HasToolUse(runs[r].response.content))
      => /\ runs[r].pc = "done"
         /\ runs[r].result = Strip(ConcatText(runs[r].response.content))

\* C4: every batch of tool results in the conversation answers the
\* assistant turn before it: one ToolResult per tool-call request of that
\* turn, in the order of the requests, each tagged with the call id of its
\* request.
C4_ResultsMatchRequests ==
  \A r \in DOMAIN runs :
    \A i \in BatchTurns(runs[r].messages) :
      /\ runs[r].messages[i - 1].role = "assistant"
      /\ ResultIds(runs[r].messages[i].content)
           = ToolUseIds(runs[r].messages[i - 1].content)

C4_Witness ==
  \E r \in DOMAIN runs :
    \E i \in BatchTurns(runs[r].messages) :
      /\ Len(runs[r].messages[i].content) = 2
      /\ Len(runs[r].messages[i - 1].content) = 3

\* the dispatch loop of run r stands at a request for an unregistered tool
UnknownAtCursor(r) ==
  /\ runs[r].pc = "tools"
  /\ runs[r].idx <= Len(runs[r].response.content)
  /\ runs[r].response.content[runs[r].idx].type = "tool_use"
  /\ runs[r].response.content[runs[r].idx].name \notin RegisteredNames

\* a payload that reports an error and names the tool
NamesUnknownTool(payload, name) ==
  /\ "\"error\"" \in Range(payload)
  /\ ("\"Unknown tool: " \o name \o "\"") \in Range(payload)

\* C5: a request for a tool that is not registered does not abort the run:
\* the step that dispatches it invokes no handler and makes no model call,
\* adds to the batch a ToolResult under the request's call id whose payload
\* is an error naming the tool, leaves the run RUNNING and moves on to the
\* next request of the reply; in every batch appended to the conversation
\* the answer to such a request is that error payload; and after the batch
\* the run is about to make its next turn unless the bound is reached.
C5_UnknownToolRecovered ==
  /\ [][\A r \in DOMAIN runs :
          (UnknownAtCursor(r) /\ Stepped(r)) =>
            LET block == runs[r].response.content[runs[r].idx] IN
              /\ runs'[r].pc = "tools"
              /\ runs'[r].error = ""
              /\ runs'[r].idx = runs[r].idx + 1
              /\ Len(runs'[r].tool_results) = Len(runs[r].tool_results) + 1
              /\ SubSeq(runs'[r].tool_results, 1, Len(runs[r].tool_results))
                   = runs[r].tool_results
              /\ LET res == runs'[r].tool_results[Len(runs'[r].tool_results)] IN
                   /\ res.tool_use_id = block.id
                   /\ NamesUnknownTool(res.content, block.name)
              /\ runs'[r].handler_calls = runs[r].handler_calls
              /\ runs'[r].sub_replies = runs[r].sub_replies
              /\ runs'[r].iter = runs[r].iter
              /\ runs'[r].messages = runs[r].messages]_vars
  /\ [](\A r \in DOMAIN runs :
          \A i \in BatchTurns(runs[r].messages) :
            LET names == ToolUseNames(runs[r].messages[i - 1].content) IN
              /\ Len(names) = Len(runs[r].messages[i].content)
              /\ \A j \in 1..Len(names) :
                   names[j] \notin RegisteredNames =>
                     NamesUnknownTool(runs[r].messages[i].content[j].content,
                                      names[j]))
  /\ [][\A r \in DOMAIN runs :
          (/\ runs[r].pc = "tools"
           /\ runs[r].idx > Len(runs[r].response.content)
           /\ \E n \in Range(ToolUseNames(runs[r].response.content)) :
                n \notin RegisteredNames
           /\ Stepped(r)) =>
            /\ runs'[r].messages =
                 Append(runs[r].messages,
                        [role |-> "user", content |-> runs[r].tool_results])
            /\ runs[r].iter < 10 => runs'[r].pc = "model" /\ runs'[r].error = ""
            /\ runs[r].iter = 10 => runs'[r].error = NonConvergence]_vars

C5_Witness ==
  \E r \in DOMAIN runs :
    /\ runs[r].pc = "model"
    /\ runs[r].iter = 1
    /\ Len(runs[r].messages) = 3
    /\ \E j \in 1..Len(runs[r].messages[3].content) :
         NamesUnknownTool(runs[r].messages[3].content[j].content, "no_such_tool")

\* a sub-agent's model call that errored or returned empty content
Unusable(sub) ==
  \/ sub.status = "error"
  \/ sub.content = <<>>
  \/ sub.content[1].text = <<>>

\* C6: once the model call of a sub-agent invoker has errored or returned
\* empty content, the run is FAILED with the invoker's error: no ToolResult
\* answers the failed call, no later handler of the batch is invoked, the
\* call is not repeated and no further model turn is made.
C6_SubAgentFailureAborts ==
  \A r \in DOMAIN runs :
    \A k \in 1..Len(runs[r].sub_replies) :
      Unusable(runs[r].sub_replies[k]) =>
        /\ runs[r].pc = "failed"
        /\ runs[r].error \in {APIError, IndexError}
        /\ k = Len(runs[r].sub_replies)
        /\ Len(runs[r].tool_results) < Len(runs[r].handler_calls)

\* s is an initial segment of t
IsPrefix(s, t) == Len(s) <= Len(t) /\ SubSeq(t, 1, Len(s)) = s

\* the number of completed non-terminal steps of a run: turns whose batch
\* of tool results has been appended
CompletedSteps(run) ==
  Cardinality({i \in 2..Len(run.messages) : run.messages[i].role = "user"})

\* C11: the conversation of a run is append-only and well-formed.  In
\* every reachable state it starts with the seed user turn, its turns
\* alternate user/assistant, every later user turn is a batch of tool
\* results, and its length is 1 + 2k after k completed non-terminal steps
\* (one more while the batch of the current step is being built or when a
\* handler aborted it).  Every step leaves the earlier turns as they were
\* and appends at most one turn: the assistant turn holding the reply just
\* received, or the batch of tool results just built, which always follows
\* an assistant turn.
C11_ConversationAppendOnly ==
  /\ [](\A r \in DOMAIN runs :
          LET m == runs[r].messages IN
            /\ Len(m) >= 1
            /\ \E mj \in MilestoneInputs : m[1] = SeedTurn(mj, "N1")
            /\ \A i \in 1..Len(m) :
                 m[i].role = IF i % 2 = 1 THEN "user" ELSE "assistant"
            /\ \A i \in 2..Len(m) :
                 m[i].role = "user" =>
                   \A j \in 1..Len(m[i].content) :
                     m[i].content[j].type = "tool_result"
            /\ runs[r].pc = "model" =>
                 /\ CompletedSteps(runs[r]) = runs[r].iter
                 /\ Len(m) = 1 + 2 * runs[r].iter
            /\ runs[r].pc = "tools" =>
                 /\ CompletedSteps(runs[r]) = runs[r].iter - 1
                 /\ Len(m) = 2 + 2 * CompletedSteps(runs[r])
            /\ runs[r].pc = "done" =>
                 /\ CompletedSteps(runs[r]) = runs[r].iter - 1
                 /\ Len(m) = 1 + 2 * CompletedSteps(runs[r])
            /\ runs[r].pc = "failed" =>
                 Len(m) \in {1 + 2 * CompletedSteps(runs[r]),
                             2 + 2 * CompletedSteps(runs[r])})
  /\ [][\A r \in DOMAIN runs :
          LET m == runs[r].messages
              n == runs'[r].messages IN
            /\ IsPrefix(m, n)
            /\ Len(n) <= Len(m) + 1
            /\ (Len(n) = Len(m) + 1 /\ n[Len(n)].role = "assistant") =>
                 /\ runs[r].pc = "model"
                 /\ n[Len(n)].content = runs'[r].response.content
            /\ (Len(n) = Len(m) + 1 /\ n[Len(n)].role = "user") =>
                 /\ runs[r].pc = "tools"
                 /\ m[Len(m)].role = "assistant"
                 /\ m[Len(m)].content = runs[r].response.content
                 /\ n[Len(n)].content = runs[r].tool_results
                 /\ CompletedSteps(runs'[r]) = runs[r].iter]_vars

C11_Witness ==
  \E r \in DOMAIN runs :
    /\ runs[r].pc = "done"
    /\ runs[r].iter = 3
    /\ Len(runs[r].messages) = 5
    /\ runs[r].messages[3].content # <<>>
    /\ runs[r].messages[5].content # <<>>

\* the dispatch loop of run r stands at a request for a registered tool
RegisteredAtCursor(r) ==
  /\ runs[r].pc = "tools"
  /\ runs[r].idx <= Len(runs[r].response.content)
  /\ runs[r].response.content[runs[r].idx].type = "tool_use"
  /\ runs[r].response.content[runs[r].idx].name \in RegisteredNames

\* the required fields of each tool, as declared in TOOLS
RequiredFields ==
  [extract_facts |-> {"milestones_json", "notes_text"},
   summarize_facts |-> {"extracted_facts_json"},
   format_updates |-> {"summarized_json"}]

\* C12: the order extract_facts, summarize_facts, format_updates is not
\* enforced.  Whatever handlers the run has invoked before, the step that
\* dispatches a request for a registered tool invokes that tool's handler,
\* and when the input holds the tool's required fields the sub-agent's
\* model call is made; the request is never answered with anything but
\* the handler's own output.  (That format_updates runs with no
\* summarize_facts before it, and twice, is the state of C12_Witness; that
\* a run ends DONE having invoked no tool is C12_DoneWithoutTools.)
C12_OrderNotEnforced ==
  [][\A r \in DOMAIN runs :
       (RegisteredAtCursor(r) /\ Stepped(r)) =>
         LET block == runs[r].response.content[runs[r].idx] IN
           /\ runs'[r].handler_calls = Append(runs[r].handler_calls, block.id)
           /\ runs'[r].invoked = Append(runs[r].invoked, block.name)
           /\ RequiredFields[block.name] \subseteq DOMAIN block.input =>
                /\ Len(runs'[r].sub_replies) = Len(runs[r].sub_replies) + 1
                /\ LET sub == runs'[r].sub_replies[Len(runs'[r].sub_replies)]
                   IN  \/ /\ runs'[r].pc = "failed"
                          /\ (sub.status = "error" \/ sub.content = <<>>)
                       \/ /\ runs'[r].pc = "tools"
                          /\ runs'[r].idx = runs[r].idx + 1
                          /\ runs'[r].tool_results =
                               Append(runs[r].tool_results,
                                      ToolResult(block.id,
                                                 sub.content[1].text))]_vars

C12_Witness ==
  \E r \in DOMAIN runs :
    /\ runs[r].pc = "done"
    /\ runs[r].invoked = <<"format_updates", "format_updates">>
    /\ Len(runs[r].messages) = 3
    /\ Len(runs[r].messages[3].content) = 2

\* a run that is DONE after at least one non-terminal step and has
\* invoked none of the three tools
C12_DoneWithoutTools ==
  \E r \in DOMAIN runs :
    /\ runs[r].pc = "done"
    /\ runs[r].iter > 1
    /\ runs[r].invoked = <<>>

(***************************************************************************)
(* Two calls of run_orchestrator in flight at once                         *)
(*                                                                         *)
(* Every name run_orchestrator assigns is a local of the call; the module  *)
(* level client and _TOOL_HANDLERS are only read.  The steps of the two    *)
(* calls interleave in any order.                                          *)
(***************************************************************************)
RunIds == {1, 2}

\* the milestones each call is given
SeedOf(r) == IF r = 1 THEN "M1" ELSE "M2"

\* what the model may answer to the first turn of each of the two runs
ConcurrentReplies ==
  { ReplyError,
    Reply("end_turn", <<TextBlock(TextB), TextBlock(TextA)>>),
    Reply("max_tokens", <<TextBlock(TextA)>>),
    Reply("tool_use", <<ToolUse("t1", "extract_facts")>>),
    Reply("tool_use", <<ToolUse("t1", "no_such_tool"),
                        ToolUse("t2", "format_updates")>>),
    Reply("tool_use",
          <<ToolUseBlock("t1", "summarize_facts",
                         PartialInput["summarize_facts"])>>) }

InitConcurrent ==
  /\ runs = [r \in RunIds |-> InitRun(SeedOf(r), "N1")]
  /\ ex = ExIdle
  /\ pv = PvIdle
  /\ ps = PsIdle
  /\ us = UsIdle

\* the reply the latest model turn of run r received
LastReply(r) == runs[r].replies[Len(runs[r].replies)]

\* the reply the latest sub-agent call of run r received
LastSubReply(r) == runs[r].sub_replies[Len(runs[r].sub_replies)]

\* what the sub-agents are answered after the first turn of the two runs
ScriptedSubReplies ==
  {Reply("end_turn", <<TextBlock(SubOutput(name))>>) : name \in RegisteredNames}

\* the steps of the two runs, interleaved; the first turn of each run is
\* answered from ConcurrentReplies, later turns from the fixed replies
NextConcurrent ==
  \E r \in DOMAIN runs :
    \/ /\ CallModel(r)
       /\ LastReply(r)' \in (IF runs[r].iter = 0 THEN ConcurrentReplies
                                                 ELSE ScriptedReplies)
    \/ /\ DispatchBlock(r)
       /\ (runs[r].iter > 1 /\ runs'[r].sub_replies # runs[r].sub_replies) =>
            LastSubReply(r)' \in ScriptedSubReplies
    \/ FinishBatch(r)

SpecConcurrent == InitConcurrent /\ [][NextConcurrent]_vars

\* lines 260-262 on the locals of one call
EndOfBatch(run) ==
  IF LoopContinues(run.iter)
    THEN [AppendBatch(run) EXCEPT !.pc = "model"]
    ELSE LoopExhausted(AppendBatch(run))

RECURSIVE RunAlone(_, _, _)
\* run_orchestrator executed on its own from the state run, answered by
\* the model replies and the sub-agent replies given, in order, until it
\* ends or the replies run out
RunAlone(run, replies, subs) ==
  IF run.pc = "model"
    THEN IF replies = <<>> THEN run
         ELSE RunAlone(ModelStep(run, Head(replies)), Tail(replies), subs)
  ELSE IF run.pc = "tools"
    THEN IF run.idx > Len(run.response.content)
           THEN RunAlone(EndOfBatch(run), replies, subs)
         ELSE LET block == run.response.content[run.idx] IN
           IF block.type # "tool_use"
             THEN RunAlone([run EXCEPT !.idx = @ + 1], replies, subs)
           ELSE IF ~HasHandler(block.name)
             THEN RunAlone(UnknownToolStep(run, block), replies, subs)
           ELSE IF ~HandlerCallsModel(block.name, block.input)
             THEN RunAlone(HandlerStep(run, block, NoResponse), replies, subs)
           ELSE IF subs = <<>> THEN run
           ELSE RunAlone(HandlerStep(run, block, Head(subs)), replies,
                         Tail(subs))
  ELSE run

\* the turns of a conversation that a run answered with its own replies:
\* the contents of its non-terminal replies, in order
RECURSIVE AssistantContents(_)
AssistantContents(replies) ==
  IF replies = <<>> THEN <<>>
  ELSE IF Head(replies).status = "ok" /\ Head(replies).stop_reason # "end_turn"
    THEN <<Head(replies).content>> \o AssistantContents(Tail(replies))
    ELSE AssistantContents(Tail(replies))

\* C13: two runs in flight at once do not interfere.  Under every
\* interleaving of their steps, the conversation of each run starts with
\* its own seed turn, its assistant turns are the non-terminal replies it
\* received itself, in order, and every batch answers the call ids of the
\* turn before it; its turn counter is the number of replies it received;
\* its state is the state of the run executed alone against the replies
\* it received (up to the steps that need no further reply), and once it
\* has ended its outcome, DONE with its result or FAILED with its error,
\* is the outcome of that run alone; and a step of one run leaves the
\* other run as it was.
C13_RunsIndependent ==
  /\ [](\A r \in DOMAIN runs :
          LET m == runs[r].messages
              own == AssistantContents(runs[r].replies) IN
            /\ m[1] = SeedTurn(SeedOf(r), "N1")
            /\ runs[r].iter = Len(runs[r].replies)
            /\ Len(own) = Len(m) \div 2
            /\ \A i \in 1..Len(own) : m[2 * i] =
                 [role |-> "assistant", content |-> own[i]]
            /\ \A i \in BatchTurns(m) :
                 ResultIds(m[i].content) = ToolUseIds(m[i - 1].content)
            /\ RunAlone(runs[r], <<>>, <<>>) =
                 RunAlone(InitRun(SeedOf(r), "N1"),
                          runs[r].replies, runs[r].sub_replies)
            /\ runs[r].pc \in {"done", "failed"} =>
                 runs[r] = RunAlone(InitRun(SeedOf(r), "N1"),
                                    runs[r].replies, runs[r].sub_replies))
  /\ [][\A r \in DOMAIN runs : \A q \in DOMAIN runs :
          (r # q /\ Stepped(r)) => runs'[q] = runs[q]]_vars

\* both runs have ended after steps taken in turn, one DONE with a batch
\* of two results in its conversation and the other FAILED for not
\* converging
C13_Witness ==
  /\ DOMAIN runs = RunIds
  /\ runs[1].pc = "done"
  /\ Len(runs[1].messages) = 3
  /\ Len(runs[1].messages[3].content) = 2
  /\ runs[2].pc = "failed"
  /\ runs[2].error = NonConvergence

\* the dispatch loop of run r stands at a request for a registered tool
\* whose input lacks a required field
PartialAtCursor(r) ==
  /\ RegisteredAtCursor(r)
  /\ LET block == runs[r].response.content[runs[r].idx] IN
       ~(RequiredFields[block.name] \subseteq DOMAIN block.input)

\* C15: a request for a registered tool whose input lacks a required
\* field is not answered with a ToolResult.  The step that dispatches it
\* leaves the run FAILED with the handler's KeyError, adds nothing to the
\* batch or to the conversation and makes no sub-agent model call; a run
\* that failed that way has one result fewer in its batch than requests
\* dispatched, and its conversation ends with the assistant turn that
\* held the request.
C15_MissingFieldAborts ==
  /\ [][\A r \in DOMAIN runs :
          (PartialAtCursor(r) /\ Stepped(r)) =>
            /\ runs'[r].pc = "failed"
            /\ runs'[r].error = KeyError
            /\ runs'[r].tool_results = runs[r].tool_results
            /\ runs'[r].messages = runs[r].messages
            /\ runs'[r].sub_replies = runs[r].sub_replies
            /\ runs'[r].iter = runs[r].iter
            /\ runs'[r].result = <<>>]_vars
  /\ [](\A r \in DOMAIN runs :
          runs[r].error = KeyError =>
            /\ runs[r].pc = "failed"
            /\ runs[r].idx <= Len(runs[r].response.content)
            /\ LET block == runs[r].response.content[runs[r].idx] IN
                 /\ block.type = "tool_use"
                 /\ block.name \in RegisteredNames
                 /\ ~(RequiredFields[block.name] \subseteq DOMAIN block.input)
                 /\ \A k \in 1..Len(runs[r].tool_results) :
                      runs[r].tool_results[k].tool_use_id # block.id
            /\ runs[r].messages[Len(runs[r].messages)] =
                 [role |-> "assistant", content |-> runs[r].response.content])
  /\ [][\A r \in DOMAIN runs :
          runs[r].error = KeyError => runs'[r] = runs[r]]_vars

\* a run aborted by the second request of a reply, after the first one
\* was answered
C15_Witness ==
  \E r \in DOMAIN runs :
    /\ runs[r].error = KeyError
    /\ runs[r].idx = 2
    /\ Len(runs[r].tool_results) = 1
    /\ Len(runs[r].sub_replies) = 1

(***************************************************************************)
(* Termination of run_orchestrator                                         *)
(***************************************************************************)
\* A run whose calls all return or fail: the blocking calls of the loop
\* (client.messages.create, handler(block.input)) come back, so the
\* sequential code always takes its next step.
\* Its first turn is answered by any reply of FreeReplies, its later turns
\* by the fixed replies.
NextFair ==
  \E r \in DOMAIN runs :
    \/ /\ CallModel(r)
       /\ runs[r].iter > 0 => LastReply(r)' \in ScriptedReplies
    \/ DispatchBlock(r)
    \/ FinishBatch(r)

SpecFair == Init /\ [][NextFair]_vars /\ WF_vars(NextFair)

\* every run is in the state pc
Ended(pc) == \A r \in DOMAIN runs : runs[r].pc = pc

\* C14: every run terminates.  A run whose model calls and tool
\* invocations all return or fail ends up DONE for good or FAILED for
\* good, and a run that is DONE or FAILED takes no further step: no
\* model call, no tool invocation, no change to its conversation.
C14_RunTerminates ==
  /\ (<>[]Ended("done")) \/ (<>[]Ended("failed"))
  /\ [][\A r \in DOMAIN runs :
          runs[r].pc \in {"done", "failed"} => runs'[r] = runs[r]]_vars

\* a run that ended DONE on its last permitted turn
C14_Witness ==
  \E r \in DOMAIN runs :
    /\ runs[r].pc = "done"
    /\ runs[r].iter = 10
    /\ Len(runs[r].messages) = 19

(***************************************************************************)
(* JSON texts and values (json.loads, as used by llm.py line 80)           *)
(*                                                                         *)
(* A JSON text is a sequence of lexemes: the six structural characters,    *)
(* whitespace, string literals, digits and the word null.  A value is a    *)
(* record [kind, atom, items]; the items of an object are its members      *)
(* [key, value] in insertion order, as in a Python dict.                   *)
(***************************************************************************)
Quote(w) == "\"" \o w \o "\""

StringLits ==
  {Quote(w) : w \in {"updates", "jira_id", "workstream", "track",
                     "A", "B", "X", "W", "T1", "T2", ""}}

DigitLits == {"1"}

JNull == [kind |-> "null", atom |-> "null", items |-> <<>>]
JStr(a) == [kind |-> "string", atom |-> a, items |-> <<>>]
JNum(a) == [kind |-> "number", atom |-> a, items |-> <<>>]
JArr(elems) == [kind |-> "array", atom |-> "", items |-> elems]
JObj(members) == [kind |-> "object", atom |-> "", items |-> members]

\* d[key] = value on a dict given as its members
Put(members, key, value) ==
  IF \E i \in 1..Len(members) : members[i].key = key
    THEN [i \in 1..Len(members) |->
            IF members[i].key = key
              THEN [key |-> key, value |-> value]
              ELSE members[i]]
    ELSE Append(members, [key |-> key, value |-> value])

Parsed(v, i) == [ok |-> TRUE, val |-> v, pos |-> i]
NotParsed == [ok |-> FALSE, val |-> JNull, pos |-> 0]

RECURSIVE SkipWs(_, _)
SkipWs(s, i) ==
  IF i <= Len(s) /\ s[i] \in Whitespace THEN SkipWs(s, i + 1) ELSE i

RECURSIVE DigitsEnd(_, _)
\* the position after the run of digits that starts at i
DigitsEnd(s, i) ==
  IF i <= Len(s) /\ s[i] \in DigitLits THEN DigitsEnd(s, i + 1) ELSE i

RECURSIVE JoinAtoms(_)
JoinAtoms(s) == IF s = <<>> THEN "" ELSE Head(s) \o JoinAtoms(Tail(s))

RECURSIVE ParseValue(_, _)
RECURSIVE ParseElements(_, _, _)
RECURSIVE ParseMembers(_, _, _)

ParseValue(s, i) ==
  IF i > Len(s) THEN NotParsed
  ELSE IF s[i] \in StringLits THEN Parsed(JStr(s[i]), i + 1)
  ELSE IF s[i] \in DigitLits
    THEN Parsed(JNum(JoinAtoms(SubSeq(s, i, DigitsEnd(s, i) - 1))),
                DigitsEnd(s, i))
  ELSE IF s[i] = "null" THEN Parsed(JNull, i + 1)
  ELSE IF s[i] = "["
    THEN LET j == SkipWs(s, i + 1) IN
           IF j <= Len(s) /\ s[j] = "]"
             THEN Parsed(JArr(<<>>), j + 1)
             ELSE ParseElements(s, j, <<>>)
  ELSE IF s[i] = "{"
    THEN LET j == SkipWs(s, i + 1) IN
           IF j <= Len(s) /\ s[j] = "}"
             THEN Parsed(JObj(<<>>), j + 1)
             ELSE ParseMembers(s, j, <<>>)
  ELSE NotParsed

ParseElements(s, i, acc) ==
  LET v == ParseValue(s, i) IN
    IF ~v.ok THEN NotParsed
    ELSE LET j == SkipWs(s, v.pos) IN
      IF j > Len(s) THEN NotParsed
      ELSE IF s[j] = ","
        THEN ParseElements(s, SkipWs(s, j + 1), Append(acc, v.val))
      ELSE IF s[j] = "]" THEN Parsed(JArr(Append(acc, v.val)), j + 1)
      ELSE NotParsed

ParseMembers(s, i, acc) ==
  IF i > Len(s) \/ s[i] \notin StringLits THEN NotParsed
  ELSE LET c == SkipWs(s, i + 1) IN
    IF c > Len(s) \/ s[c] # ":" THEN NotParsed
    ELSE LET v == ParseValue(s, SkipWs(s, c + 1)) IN
      IF ~v.ok THEN NotParsed
      ELSE LET j == SkipWs(s, v.pos) IN
        IF j > Len(s) THEN NotParsed
        ELSE IF s[j] = ","
          THEN ParseMembers(s, SkipWs(s, j + 1), Put(acc, s[i], v.val))
        ELSE IF s[j] = "}"
          THEN Parsed(JObj(Put(acc, s[i], v.val)), j + 1)
        ELSE NotParsed

\* outcomes that carry a JSON value
ReturnValue(v) == [kind |-> "return", value |-> v, error |-> ""]
RaiseError(e) == [kind |-> "raise", value |-> JNull, error |-> e]

JSONDecodeError == "json.JSONDecodeError"
TypeError == "TypeError"
AttributeError == "AttributeError"

\* json.loads(s)
JsonLoads(s) ==
  LET v == ParseValue(s, SkipWs(s, 1)) IN
    IF v.ok /\ SkipWs(s, v.pos) > Len(s)
      THEN ReturnValue(v.val)
      ELSE RaiseError(JSONDecodeError)

(***************************************************************************)
(* generate_jira_updates (llm.py 17-86)                                    *)
(***************************************************************************)
\* variant: the closing fence is left in place
StripFences_KeepClosing(content) ==
  IF StartsWith(content, Fence)
    THEN IF Len(SplitFirstLine(content)) < 2
           THEN Raise(IndexError)
           ELSE Return(Strip(SplitFirstLine(content)[2]))
    ELSE Return(content)

\* lines 74-78: content is the stripped text of the reply
StripFences(content) ==
  IF StartsWith(content, Fence)
    THEN IF Len(SplitFirstLine(content)) < 2
           THEN Raise(IndexError)
           ELSE LET rest == SplitFirstLine(content)[2] IN
                  IF EndsWith(rest, Fence)
                    THEN Return(Strip(SubSeq(rest, 1, Len(rest) - 3)))
                    ELSE Return(Strip(rest))
    ELSE Return(content)

\* lines 82-84: result["workstream"] = ...; result["track"] = ...
AttachMetadata(result, track_context) ==
  IF result.kind = "object"
    THEN ReturnValue(JObj(Put(Put(result.items, Quote("workstream"),
                                  JStr(Quote(track_context.workstream))),
                              Quote("track"), JStr(Quote(track_context.track)))))
    ELSE RaiseError(TypeError)

\* lines 63-86: the function, given the reply of its model call
generate_jira_updates(track_context, reply) ==
  IF reply.status = "error" THEN RaiseError(APIError)
  ELSE IF reply.content = <<>> THEN RaiseError(IndexError)
  ELSE IF "text" \notin DOMAIN reply.content[1] THEN RaiseError(AttributeError)
  ELSE LET content == StripFences(Strip(reply.content[1].text)) IN
    IF content.kind = "raise" THEN RaiseError(content.error)
    ELSE LET result == JsonLoads(content.text) IN
      IF result.kind = "raise" THEN result
      ELSE AttachMetadata(result.value, track_context)

(***************************************************************************)
(* Inputs of generate_jira_updates                                         *)
(***************************************************************************)
\* longest text drawn lexeme by lexeme
MaxRawLen == 3

RawAlphabet == {"{", "}", "1", BT, NL}

RECURSIVE SeqsUpTo(_, _)
SeqsUpTo(S, n) ==
  IF n = 0 THEN {<<>>}
  ELSE SeqsUpTo(S, n - 1) \cup
       {Append(q, x) : q \in {t \in SeqsUpTo(S, n - 1) : Len(t) = n - 1}, x \in S}

RawTexts == SeqsUpTo(RawAlphabet, MaxRawLen)

UpdateA == <<"{", Quote("jira_id"), ":", Quote("A"), "}">>
UpdateB == <<"{", Quote("jira_id"), ":", SP, Quote("B"), "}">>

\* JSON objects
ObjectBodies ==
  { <<"{", "}">>,
    <<"{", Quote("updates"), ":", "[", "]", "}">>,
    <<"{", Quote("updates"), ":", "[">> \o UpdateA \o <<"]", "}">>,
    <<"{", NL, SP, Quote("updates"), ":", SP, "[", NL>> \o UpdateA
       \o <<",", NL>> \o UpdateB \o <<NL, "]", NL, "}">>,
    <<"{", Quote("workstream"), ":", Quote("X"), ",",
      Quote("updates"), ":", "[">> \o UpdateA \o <<"]", "}">>,
    <<"{", Quote("updates"), ":", "null", "}">>,
    <<"{", Quote("updates"), ":", "1", "}">>,
    <<"{", Quote("updates"), ":", Quote("A"), "}">>,
    <<"{", Quote("updates"), ":", "[", "1", "]", "}">> }

\* JSON texts that are no object
OtherJsonBodies ==
  { <<"[">> \o UpdateA \o <<"]">>, <<"1", "1">>, <<Quote("A")>>, <<"null">> }

\* texts that are no JSON
BrokenBodies ==
  { <<>>,
    <<"{", Quote("updates"), ":", "[", "}">>,
    <<"{", Quote("updates"), ":", "[", "]", "}", SP, "Done.">>,
    <<"Here", SP, "you", SP, "go">> }

Bodies == ObjectBodies \cup OtherJsonBodies \cup BrokenBodies

\* what precedes the JSON text: nothing, whitespace, or an opening fence
\* line (with or without a language tag)
BarePrefixes == { <<>>, <<SP>>, <<NL, SP>> }
FenceLines ==
  { Fence \o <<NL>>, Fence \o <<"json", NL>>, <<SP>> \o Fence \o <<"json", SP, NL>> }
\* an opening fence that is not followed by a line break
OpenFences == { Fence, Fence \o <<"json">> }
Prefixes == BarePrefixes \cup FenceLines \cup OpenFences

\* what follows the JSON text: nothing, whitespace, or a closing fence
BareSuffixes == { <<>>, <<NL>> }
ClosingFences == { Fence, <<NL>> \o Fence, <<NL>> \o Fence \o <<NL>> }
Suffixes == BareSuffixes \cup ClosingFences

MenuPayloads ==
  { [pre |-> a, body |-> b, suf |-> c] :
      a \in Prefixes, b \in Bodies, c \in Suffixes }

RawPayloads == { [pre |-> <<>>, body |-> b, suf |-> <<>>] : b \in RawTexts }

Payloads == MenuPayloads \cup RawPayloads

PayloadText(p) == p.pre \o p.body \o p.suf

Milestone(id) ==
  [name |-> "m" \o id, status |-> "", target_date |-> "", owner |-> "",
   jira_id |-> id, previous_status_update |-> ""]

ExtractTracks ==
  { [workstream |-> "W", track |-> "T1", notes_text |-> "",
     milestones |-> <<Milestone("A")>>],
    [workstream |-> "", track |-> "T2", notes_text |-> "n",
     milestones |-> <<Milestone("A"), Milestone("B")>>] }

NoOutcome == [kind |-> "none", value |-> JNull, error |-> ""]

\* replies of the model call of generate_jira_updates for a payload
ExtractReplies(p) ==
  { ReplyError,
    Reply("end_turn", <<>>),
    Reply("end_turn", <<TextBlock(PayloadText(p))>>),
    Reply("max_tokens", <<TextBlock(PayloadText(p)), TextBlock(<<"more">>)>>) }

InitExtract ==
  /\ runs = <<>>
  /\ pv = PvIdle
  /\ ex \in { [pc |-> "start", track_context |-> t, payload |-> p,
               reply |-> NoResponse, outcome |-> NoOutcome] :
                t \in ExtractTracks, p \in Payloads }
  /\ ps = PsIdle
  /\ us = UsIdle

\* one call of generate_jira_updates
GenerateJiraUpdates ==
  /\ ex.pc = "start"
  /\ \E reply \in ExtractReplies(ex.payload) :
       ex' = [ex EXCEPT !.pc = "done", !.reply = reply,
                        !.outcome = generate_jira_updates(ex.track_context, reply)]
  /\ UNCHANGED <<runs, pv, ps, us>>

NextExtract == GenerateJiraUpdates

SpecExtract == InitExtract /\ [][NextExtract]_vars

(***************************************************************************)
(* Properties of generate_jira_updates, checked under SpecExtract          *)
(***************************************************************************)
Keys(v) == {v.items[i].key : i \in 1..Len(v.items)}

Get(v, k) == v.items[CHOOSE i \in 1..Len(v.items) : v.items[i].key = k].value

\* the call has run and its model call returned the payload as the text of
\* the first block
Delivered ==
  /\ ex.pc = "done"
  /\ ex.reply.status = "ok"
  /\ ex.reply.content # <<>>

\* a bare JSON text, or one between an opening fence line and an optional
\* closing fence
WellWrapped(p) ==
  \/ p.pre \in BarePrefixes /\ p.suf \in BareSuffixes
  \/ p.pre \in FenceLines /\ p.suf \in BareSuffixes \cup ClosingFences

\* the returned value is the object v with the track's metadata attached
\* and every other field unchanged
IsAttached(out, v, t) ==
  /\ out.kind = "return"
  /\ out.value.kind = "object"
  /\ Keys(out.value) = Keys(v) \cup {Quote("workstream"), Quote("track")}
  /\ Get(out.value, Quote("workstream")) = JStr(Quote(t.workstream))
  /\ Get(out.value, Quote("track")) = JStr(Quote(t.track))
  /\ \A k \in Keys(v) \ {Quote("workstream"), Quote("track")} :
       Get(out.value, k) = Get(v, k)

\* C8 (as stated): for every payload that is valid JSON, bare or wrapped in
\* code fences, the returned value is the parsed JSON of the unfenced text
\* with the track's workstream and track attached and the other fields
\* unchanged.
C8_ValidJsonReturned ==
  (/\ Delivered
   /\ WellWrapped(ex.payload)
   /\ JsonLoads(ex.payload.body).kind = "return")
    => IsAttached(ex.outcome, JsonLoads(ex.payload.body).value, ex.track_context)

\* C8 (amended): for every payload that is a valid JSON object, bare or
\* wrapped in code fences, the returned value is the parsed object of the
\* unfenced text with the track's workstream and track attached and the
\* other fields unchanged.
C8_ValidObjectReturned ==
  (/\ Delivered
   /\ WellWrapped(ex.payload)
   /\ JsonLoads(ex.payload.body).kind = "return"
   /\ JsonLoads(ex.payload.body).value.kind = "object")
    => IsAttached(ex.outcome, JsonLoads(ex.payload.body).value, ex.track_context)

C8_Witness ==
  /\ Delivered
  /\ ex.payload.pre \in FenceLines
  /\ ex.payload.suf \in ClosingFences
  /\ NL \in Range(ex.payload.body)
  /\ ex.outcome.kind = "return"
  /\ Quote("updates") \in Keys(ex.outcome.value)
  /\ Get(ex.outcome.value, Quote("track")) = JStr(Quote("T1"))

\* the text left when optional wrapping code fences are removed: the
\* opening fence line and a closing fence
Unfenced(text) ==
  LET t == Strip(text)
      rest == IF NewlinesOf(t) = {}
                THEN <<>>
                ELSE SubSeq(t, FirstNewline(t) + 1, Len(t))
  IN IF ~StartsWith(t, Fence) THEN t
     ELSE IF EndsWith(rest, Fence)
       THEN Strip(SubSeq(rest, 1, Len(rest) - 3))
       ELSE Strip(rest)

\* C9: for every payload that is not valid JSON once optional fences are
\* removed (an empty payload and a lone opening fence included), the call
\* fails with the error type of a malformed result (the JSON decoding
\* error), with no other exception type, and returns nothing.
C9_MalformedIsTypedError ==
  (Delivered /\ JsonLoads(Unfenced(PayloadText(ex.payload))).kind = "raise")
    => /\ ex.outcome.kind = "raise"
       /\ ex.outcome.error = JSONDecodeError

\* C10: every returned result holds an updates list, and the jira_id of
\* every entry of it is the jira_id of a milestone of the input track.
C10_NoFabricatedIds ==
  (ex.pc = "done" /\ ex.outcome.kind = "return")
    => /\ Quote("updates") \in Keys(ex.outcome.value)
       /\ LET updates == Get(ex.outcome.value, Quote("updates")) IN
            /\ updates.kind = "array"
            /\ \A i \in 1..Len(updates.items) :
                 /\ updates.items[i].kind = "object"
                 /\ Quote("jira_id") \in Keys(updates.items[i])
                 /\ Get(updates.items[i], Quote("jira_id")) \in
                      {JStr(Quote(ex.track_context.milestones[m].jira_id)) :
                         m \in 1..Len(ex.track_context.milestones)}

(***************************************************************************)
(* generate_preview, step 5 (generate.py 66-98)                            *)
(*                                                                         *)
(* The state after steps 1-4: a non-empty list of parsed tracks.           *)
(***************************************************************************)
\* longest list of parsed tracks
MaxTracks == 2

ParsedTracks ==
  { [workstream |-> "W", track |-> "T1", track_status |-> "", notes_link |-> "doc1",
     milestones |-> <<Milestone("A")>>],
    [workstream |-> "W", track |-> "T2", track_status |-> "", notes_link |-> "",
     milestones |-> <<>>],
    [workstream |-> "", track |-> "X", track_status |-> "", notes_link |-> "",
     milestones |-> <<Milestone("A"), Milestone("B")>>] }

TrackLists == SeqsUpTo(ParsedTracks, MaxTracks) \ {<<>>}

\* docs.get_doc_text(link): the text, or an exception
DocOutcomes == {Return(<<"notes">>), Raise("HttpError")}

\* lines 71-78: track["notes_text"]
WithNotes(track, doc) ==
  [k \in DOMAIN track \cup {"notes_text"} |->
     IF k # "notes_text" THEN track[k]
     ELSE IF track.notes_link = "" THEN <<>>
     ELSE IF doc.kind = "raise" THEN <<"[Error fetching notes: ", doc.error, "]">>
     ELSE doc.text]

\* replies of the model call made for one track
PreviewReplies ==
  { ReplyError,
    Reply("end_turn", <<TextBlock(<<"Here", SP, "you", SP, "go">>)>>),
    Reply("end_turn", <<TextBlock(<<"{", "}">>)>>),
    Reply("end_turn", <<TextBlock(<<"{", Quote("updates"), ":", "[">> \o UpdateA
                                    \o <<"]", "}">>)>>),
    Reply("end_turn", <<TextBlock(Fence \o <<"json", NL, "{", Quote("updates"), ":", "[">>
                                    \o UpdateB \o <<"]", "}", NL>> \o Fence)>>),
    Reply("end_turn", <<TextBlock(<<"{", Quote("updates"), ":", Quote("A"), "}">>)>>),
    Reply("end_turn", <<TextBlock(<<"{", Quote("updates"), ":", "null", "}">>)>>) }

\* len(v) is defined
Sized(v) == v.kind \in {"array", "object", "string"}

\* line 87: len(ai_result.get("updates", [])) raises for a value without len
LogLine(ai_result) ==
  IF Quote("updates") \in Keys(ai_result) /\ ~Sized(Get(ai_result, Quote("updates")))
    THEN RaiseError(TypeError)
    ELSE ReturnValue(ai_result)

\* lines 91-96
ErrorEntry(track, e) ==
  JObj(<<[key |-> Quote("workstream"), value |-> JStr(Quote(track.workstream))],
         [key |-> Quote("track"), value |-> JStr(Quote(track.track))],
         [key |-> Quote("error"), value |-> JStr(Quote(e))],
         [key |-> Quote("updates"), value |-> JArr(<<>>)]>>)

\* lines 85-96: the entry appended for a track with milestones
TrackEntry(track, out) ==
  IF out.kind = "raise" THEN ErrorEntry(track, out.error)
  ELSE IF LogLine(out.value).kind = "raise"
    THEN ErrorEntry(track, LogLine(out.value).error)
  ELSE out.value

NotCalled == [kind |-> "not called", value |-> JNull, error |-> ""]

\* variant: no try/except around the generation, an exception ends the request
ProcessTrack_NoExcept(p, doc, reply) ==
  LET track == WithNotes(p.parsed_tracks[p.i], doc)
      out == generate_jira_updates(track, reply)
  IN IF track.milestones = <<>>
       THEN [p EXCEPT !.i = @ + 1,
                      !.parsed_tracks[p.i] = track,
                      !.generated = Append(@, NotCalled)]
     ELSE IF out.kind = "raise"
       THEN [p EXCEPT !.pc = "raised",
                      !.parsed_tracks[p.i] = track,
                      !.generated = Append(@, out)]
     ELSE [p EXCEPT !.i = @ + 1,
                    !.parsed_tracks[p.i] = track,
                    !.generated = Append(@, out),
                    !.results = Append(@, TrackEntry(track, out))]

\* lines 69-96: one iteration of the loop over the tracks
ProcessTrack(p, doc, reply) ==
  LET track == WithNotes(p.parsed_tracks[p.i], doc)
      out == generate_jira_updates(track, reply)
  IN IF track.milestones = <<>>
       THEN [p EXCEPT !.i = @ + 1,
                      !.parsed_tracks[p.i] = track,
                      !.generated = Append(@, NotCalled)]
       ELSE [p EXCEPT !.i = @ + 1,
                      !.parsed_tracks[p.i] = track,
                      !.generated = Append(@, out),
                      !.results = Append(@, TrackEntry(track, out))]

InitPreview ==
  /\ runs = <<>>
  /\ ex = ExIdle
  /\ pv \in { [pc |-> "loop", parsed_tracks |-> ts, i |-> 1, results |-> <<>>,
               generated |-> <<>>, response |-> <<>>] : ts \in TrackLists }
  /\ ps = PsIdle
  /\ us = UsIdle

PreviewTrack ==
  /\ pv.pc = "loop"
  /\ pv.i <= Len(pv.parsed_tracks)
  /\ \E doc \in (IF pv.parsed_tracks[pv.i].notes_link = ""
                   THEN {Return(<<>>)} ELSE DocOutcomes) :
       \E reply \in (IF pv.parsed_tracks[pv.i].milestones = <<>>
                       THEN {NoResponse} ELSE PreviewReplies) :
         pv' = ProcessTrack(pv, doc, reply)
  /\ UNCHANGED <<runs, ex, ps, us>>

\* line 98
PreviewReturn ==
  /\ pv.pc = "loop"
  /\ pv.i > Len(pv.parsed_tracks)
  /\ pv' = [pv EXCEPT !.pc = "returned", !.response = pv.results]
  /\ UNCHANGED <<runs, ex, ps, us>>

NextPreview == PreviewTrack \/ PreviewReturn

SpecPreview == InitPreview /\ [][NextPreview]_vars

(***************************************************************************)
(* Properties of generate_preview, checked under SpecPreview               *)
(***************************************************************************)
\* the tracks among the first n that have a milestone
WithMilestones(n) == {m \in 1..n : pv.parsed_tracks[m].milestones # <<>>}

\* the place in the results of the entry of track n
EntryPos(n) == Cardinality(WithMilestones(n))

IsErrorEntry(e, track) ==
  /\ e.kind = "object"
  /\ Keys(e) = {Quote("workstream"), Quote("track"), Quote("error"), Quote("updates")}
  /\ Get(e, Quote("workstream")) = JStr(Quote(track.workstream))
  /\ Get(e, Quote("track")) = JStr(Quote(track.track))
  /\ Get(e, Quote("error")).kind = "string"
  /\ Get(e, Quote("updates")) = JArr(<<>>)

\* the updates field of a generated result has a length, or is absent
UpdatesSized(v) ==
  Quote("updates") \in Keys(v) => Sized(Get(v, Quote("updates")))

\* the list of results holds one entry per processed track with a
\* milestone, in track order, that Entry accepts; tracks without milestones
\* have no entry and no generation call; the request is never aborted and
\* returns the list when every track is processed
PreviewResults(Entry(_, _)) ==
  /\ pv.pc \in {"loop", "returned"}
  /\ Len(pv.results) = EntryPos(Len(pv.generated))
  /\ \A n \in 1..Len(pv.generated) :
       IF pv.parsed_tracks[n].milestones = <<>>
         THEN pv.generated[n] = NotCalled
         ELSE /\ pv.generated[n] # NotCalled
              /\ Entry(pv.results[EntryPos(n)], n)
  /\ pv.pc = "returned" =>
       /\ Len(pv.generated) = Len(pv.parsed_tracks)
       /\ pv.response = pv.results

EntryAsStated(e, n) ==
  IF pv.generated[n].kind = "raise"
    THEN IsErrorEntry(e, pv.parsed_tracks[n])
    ELSE e = pv.generated[n].value

EntryAmended(e, n) ==
  IF pv.generated[n].kind = "return" /\ UpdatesSized(pv.generated[n].value)
    THEN e = pv.generated[n].value
    ELSE IsErrorEntry(e, pv.parsed_tracks[n])

Letters == {"A"}
Digits == {"0", "8"}

RECURSIVE PrefixIn(_, _)
\* the length of the longest prefix of s made of elements of S
PrefixIn(s, S) ==
  IF s # <<>> /\ Head(s) \in S THEN 1 + PrefixIn(Tail(s), S) ELSE 0

\* groups (0*)(\d+) of the pattern: the zeros are taken greedily, but one
\* digit is left for \d+
DropZeros(digits) ==
  LET z == PrefixIn(digits, {"0"}) IN
    SubSeq(digits, (IF z = Len(digits) THEN z - 1 ELSE z) + 1, Len(digits))

\* re.match(r"^([A-Za-z]+-)(0*)(\d+)$", key): group(1) + group(3) on a
\* match, else key; $ also matches before one trailing newline
normalize_jira_key(key) ==
  LET body == IF key # <<>> /\ key[Len(key)] = NL
                THEN SubSeq(key, 1, Len(key) - 1) ELSE key
      n == PrefixIn(body, Letters)
      digits == SubSeq(body, n + 2, Len(body))
      matches == /\ n >= 1
                 /\ Len(body) > n
                 /\ body[n + 1] = "-"
                 /\ digits # <<>>
                 /\ PrefixIn(digits, Digits) = Len(digits)
  IN IF matches THEN SubSeq(body, 1, n + 1) \o DropZeros(digits) ELSE key

\* (row.get(col) or "").strip()
Cell(row, col) == IF col \in DOMAIN row THEN Strip(row[col]) ELSE <<>>

\* lines 61-67
NewTrack(workstream, row) ==
  [workstream |-> workstream,
   track |-> Cell(row, "Description"),
   track_status |-> Cell(row, "Status"),
   notes_link |-> Cell(row, "Notes"),
   milestones |-> <<>>]

\* lines 74-83
NewMilestone(row) ==
  [name |-> Cell(row, "Description"),
   status |-> Cell(row, "Status"),
   target_date |-> Cell(row, "Target Date"),
   owner |-> Cell(row, "Milestone Owner"),
   jira_id |-> normalize_jira_key(Cell(row, "Jira ID")),
   previous_status_update |-> Cell(row, "Status Update")]

\* variant: the milestone attached to the first track of the sheet
AttachMilestone_First(tracks, milestone) ==
  [tracks EXCEPT ![1].milestones = Append(@, milestone)]

\* line 84: current_track is the dict appended last to tracks
AttachMilestone(tracks, milestone) ==
  [tracks EXCEPT ![Len(tracks)].milestones = Append(@, milestone)]

\* lines 55-84: one row of the loop.  st.workstream is <<>> for None and
\* for "" alike (it is only read as workstream or ""); st.has_track tells
\* whether current_track is not None
ParseRowStep(st, row) ==
  LET work_type == Cell(row, "WorkType") IN
    IF work_type = <<"Workstream">>
      THEN [st EXCEPT !.workstream = Cell(row, "Description")]
    ELSE IF work_type = <<"Track">>
      THEN [st EXCEPT !.has_track = TRUE,
                      !.tracks = Append(@, NewTrack(st.workstream, row))]
    ELSE IF work_type = <<"Milestone">> /\ st.has_track
      THEN IF Cell(row, "Jira ID") = <<>>
             THEN st
             ELSE [st EXCEPT !.tracks = AttachMilestone(@, NewMilestone(row))]
    ELSE st

\* a row of a sheet that has the nine columns
SheetRow(work_type, description, jira_id) ==
  [col \in {"WorkType", "Description", "Status", "Target Date",
            "Milestone Owner", "Jira ID", "Notes", "Status Update",
            "Comments"} |->
     IF col = "WorkType" THEN work_type
     ELSE IF col = "Description" THEN description
     ELSE IF col = "Jira ID" THEN jira_id
     ELSE IF col = "Status" THEN <<"On", SP, "Track">>
     ELSE IF col = "Status Update" THEN <<"prev", NL>>
     ELSE <<>>]

MaxRows == 3

SheetRows ==
  { SheetRow(<<"Workstream">>, <<"W1">>, <<>>),
    SheetRow(<<SP, "Workstream">>, <<"W2", SP>>, <<>>),
    SheetRow(<<"Track">>, <<"T1">>, <<>>),
    SheetRow(<<"Track", NL>>, <<SP, "T2">>, <<"A", "-", "8">>),
    SheetRow(<<"Milestone">>, <<"m1">>, <<"A", "-", "0", "8">>),
    SheetRow(<<"Milestone", SP>>, <<"m2", SP>>, <<SP, "A", "-", "8">>),
    SheetRow(<<"Milestone">>, <<"m3">>, <<"A", "-", "0", "0">>),
    SheetRow(<<"Milestone">>, <<"m4">>, <<>>),
    SheetRow(<<"Milestone">>, <<"m5">>, <<SP>>),
    SheetRow(<<"Milestone">>, <<"m6">>, <<"8", "A">>),
    SheetRow(<<"Task">>, <<"t1">>, <<"A", "-", "8">>),
    [Description |-> <<"d1">>] }

InitParse ==
  /\ runs = <<>>
  /\ ex = ExIdle
  /\ pv = PvIdle
  /\ us = UsIdle
  /\ ps \in { [pc |-> "loop", rows |-> rows, i |-> 1, workstream |-> <<>>,
               has_track |-> FALSE, tracks |-> <<>>, result |-> <<>>] :
                rows \in SeqsUpTo(SheetRows, MaxRows) }

\* lines 54-84: for row in rows
ParseRow ==
  /\ ps.pc = "loop"
  /\ ps.i <= Len(ps.rows)
  /\ ps' = [ParseRowStep(ps, ps.rows[ps.i]) EXCEPT !.i = @ + 1]
  /\ UNCHANGED <<runs, ex, pv, us>>

\* line 86
ParseReturn ==
  /\ ps.pc = "loop"
  /\ ps.i > Len(ps.rows)
  /\ ps' = [ps EXCEPT !.pc = "returned", !.result = ps.tracks]
  /\ UNCHANGED <<runs, ex, pv, us>>

NextParse == ParseRow \/ ParseReturn

SpecParse == InitParse /\ [][NextParse]_vars

(***************************************************************************)
(* Properties of parse_sheet_rows, checked under SpecParse                 *)
(***************************************************************************)
\* a cell as it stands in the sheet, and a cell with the whitespace around
\* it removed
RawCell(row, col) == IF col \in DOMAIN row THEN row[col] ELSE <<>>
TrimmedCell(row, col) == Strip(RawCell(row, col))

\* the k-th smallest element of a set of row numbers
Nth(S, k) == CHOOSE i \in S : Cardinality({j \in S : j < i}) = k - 1

\* the largest element of a non-empty set of row numbers
Latest(S) == CHOOSE i \in S : \A j \in S : j <= i

\* What the rows are to yield when a cell is read as V reads it: one track
\* per Track row, in row order, with the Description of the latest
\* Workstream row before it, and with the Milestone rows that follow it up
\* to the next Track row and have a Jira ID, in row order, each under its
\* normalised Jira ID.
TracksOf(rows, V(_, _)) ==
  LET TR == {i \in 1..Len(rows) : V(rows[i], "WorkType") = <<"Track">>} IN
    [k \in 1..Cardinality(TR) |->
       LET t == Nth(TR, k)
           next == IF k < Cardinality(TR) THEN Nth(TR, k + 1)
                                          ELSE Len(rows) + 1
           WS == {i \in 1..(t - 1) :
                    V(rows[i], "WorkType") = <<"Workstream">>}
           MS == {j \in (t + 1)..(next - 1) :
                    /\ V(rows[j], "WorkType") = <<"Milestone">>
                    /\ V(rows[j], "Jira ID") # <<>>}
       IN [workstream |-> IF WS = {} THEN <<>>
                          ELSE V(rows[Latest(WS)], "Description"),
           track |-> V(rows[t], "Description"),
           milestones |->
             [n \in 1..Cardinality(MS) |->
                [name |-> V(rows[Nth(MS, n)], "Description"),
                 jira_id |->
                   normalize_jira_key(V(rows[Nth(MS, n)], "Jira ID"))]]]]

\* the tracks returned, reduced to what the claim speaks of
Returned ==
  [k \in 1..Len(ps.result) |->
     [workstream |-> ps.result[k].workstream,
      track |-> ps.result[k].track,
      milestones |->
        [n \in 1..Len(ps.result[k].milestones) |->
           [name |-> ps.result[k].milestones[n].name,
            jira_id |-> ps.result[k].milestones[n].jira_id]]]]

\* C16 as stated: the tracks returned are those of the rows, each cell
\* read as it stands in the sheet (a Track row is a row whose WorkType is
\* "Track", an empty Jira ID is the empty text).
C16_TracksOfRows ==
  ps.pc = "returned" => Returned = TracksOf(ps.rows, RawCell)

\* C16, amended: parse_sheet_rows returns one track per Track row, in row
\* order, each with the Description of the latest Workstream row before it
\* (empty if none) and with the Milestone rows between it and the next
\* Track row that have a Jira ID, in row order and under their normalised
\* Jira IDs; every other row contributes nothing; where every cell is read
\* with the whitespace around it removed, so that a Jira ID of whitespace
\* only counts as empty.
C16_TracksOfTrimmedRows ==
  ps.pc = "returned" => Returned = TracksOf(ps.rows, TrimmedCell)

\* a sheet of three rows: a Track row whose WorkType cell ends with a
\* newline, a Milestone row whose Jira ID is one space, and a Milestone row
\* with the Jira ID A-08; one track is returned, holding the one milestone
\* A-8
C16_Witness ==
  /\ ps.pc = "returned"
  /\ Len(ps.rows) = 3
  /\ RawCell(ps.rows[1], "WorkType") = <<"Track", NL>>
  /\ RawCell(ps.rows[2], "WorkType") = <<"Milestone">>
  /\ RawCell(ps.rows[2], "Jira ID") = <<SP>>
  /\ RawCell(ps.rows[3], "Jira ID") = <<"A", "-", "0", "8">>
  /\ Len(ps.result) = 1
  /\ Len(ps.result[1].milestones) = 1
  /\ ps.result[1].milestones[1].jira_id = <<"A", "-", "8">>

(***************************************************************************)
(* update_sheet_summary (post.py 31-82) and UpdateSheetRequest             *)
(* (schemas.py 48-51)                                                      *)
(*                                                                         *)
(* A sheet is its header row and its data rows; a posted body is a         *)
(* function from field names to texts.                                     *)
(***************************************************************************)
\* the fields the request model declares, all of them required
UpdateSheetRequestFields == {"sheet_id", "track_name", "leadership_summary"}

\* UpdateSheetRequest(**body): a body that lacks a declared field is
\* refused before the handler runs; a field the model does not declare is
\* dropped
UpdateSheetRequest(body) ==
  IF UpdateSheetRequestFields \subseteq DOMAIN body
    THEN [ok |-> TRUE, request |-> [f \in UpdateSheetRequestFields |-> body[f]]]
    ELSE [ok |-> FALSE, request |-> <<>>]

\* the answer of the endpoint
HttpError(code) == [status_code |-> code, status |-> "error", cell |-> <<>>]
Updated(cell) == [status_code |-> 200, status |-> "updated", cell |-> cell]

\* what a call leaves behind: its answer and the cells it wrote
Outcome(response, writes) == [response |-> response, writes |-> writes]

ColumnLetters == <<"A", "B", "C", "D", "E", "F", "G", "H", "I">>

\* headers.index(col) + 1
ColumnOf(headers, col) ==
  CHOOSE i \in 1..Len(headers) :
    headers[i] = col /\ \A j \in 1..(i - 1) : headers[j] # col

\* lines 45-51: the rows that satisfy the test of the loop, numbered from 1
MatchingRows(rows, normalized_request_id) ==
  { i \in 1..Len(rows) :
      /\ Cell(rows[i], "WorkType") = <<"Milestone">>
      /\ normalize_jira_key(Cell(rows[i], "Jira ID")) = normalized_request_id }

\* lines 37-82.  read_ok and write_ok tell whether sheets.read_sheet and
\* sheets.update_cell return; reading request.jira_id raises
\* AttributeError when the request has no such attribute, and every
\* exception but HTTPException is answered with 500
update_sheet_summary(request, sheet, read_ok, write_ok) ==
  IF ~read_ok THEN Outcome(HttpError(500), <<>>)
  ELSE IF "jira_id" \notin DOMAIN request THEN Outcome(HttpError(500), <<>>)
  ELSE
    LET normalized_request_id == normalize_jira_key(Strip(request["jira_id"]))
        matching == MatchingRows(sheet.rows, normalized_request_id)
    IN IF matching = {} THEN Outcome(HttpError(404), <<>>)
       ELSE IF "Status Update" \notin Range(sheet.headers)
         THEN Outcome(HttpError(400), <<>>)
       ELSE
         LET milestone_row_index == Nth(matching, 1) + 1
             col_letter ==
               ColumnLetters[ColumnOf(sheet.headers, "Status Update")]
             cell_range == <<"Sheet1!", col_letter, milestone_row_index>>
         IN IF ~write_ok THEN Outcome(HttpError(500), <<>>)
            ELSE Outcome(Updated(cell_range),
                         <<[cell |-> cell_range,
                            value |-> request["leadership_summary"]]>>)

\* the header rows: the nine columns of the tracker, or the tracker
\* without its Status Update column
HeaderRows ==
  { <<"WorkType", "Description", "Status", "Target Date", "Milestone Owner",
      "Jira ID", "Notes", "Status Update", "Comments">>,
    <<"WorkType", "Description", "Status", "Jira ID">> }

UpdateRows ==
  { SheetRow(<<"Track">>, <<"T1">>, <<"A", "-", "8">>),
    SheetRow(<<"Milestone">>, <<"m1">>, <<"A", "-", "0", "8">>),
    SheetRow(<<"Milestone", SP>>, <<"m2">>, <<SP, "A", "-", "8">>),
    SheetRow(<<"Milestone">>, <<"m3">>, <<"A", "-", "0">>),
    SheetRow(<<"Milestone">>, <<"m4">>, <<>>) }

\* read_sheet: each data row is a dict keyed by the headers
Sheets ==
  { [headers |-> h,
     rows |-> [i \in 1..Len(rs) |-> [c \in Range(h) |-> rs[i][c]]]] :
       h \in HeaderRows, rs \in SeqsUpTo(UpdateRows, MaxRows) }

PostedBody(jira_id) ==
  [sheet_id |-> <<"sheet">>, track_name |-> <<"T1">>,
   leadership_summary |-> <<"On", SP, "track">>, jira_id |-> jira_id]

Bodies17 ==
  { PostedBody(<<"A", "-", "8">>),
    PostedBody(<<SP, "A", "-", "0", "0", "8">>),
    PostedBody(<<"A", "-", "0", "0">>),
    PostedBody(<<"8", "A">>),
    [sheet_id |-> <<"sheet">>, track_name |-> <<"T1">>,
     leadership_summary |-> <<"On", SP, "track">>],
    [sheet_id |-> <<"sheet">>, jira_id |-> <<"A", "-", "8">>] }

InitUpdate ==
  /\ runs = <<>>
  /\ ex = ExIdle
  /\ pv = PvIdle
  /\ ps = PsIdle
  /\ us \in { [pc |-> "posted", body |-> b, sheet |-> sh,
               read_ok |-> TRUE, write_ok |-> TRUE,
               response |-> HttpError(0), writes |-> <<>>] :
                b \in Bodies17, sh \in Sheets }

\* POST /update-sheet-summary: the body is validated, then the handler runs
UpdateSheetSummary ==
  /\ us.pc = "posted"
  /\ \E read_ok \in BOOLEAN, write_ok \in BOOLEAN :
       LET validated == UpdateSheetRequest(us.body)
           out == IF validated.ok
                    THEN update_sheet_summary(validated.request, us.sheet,
                                              read_ok, write_ok)
                    ELSE Outcome(HttpError(422), <<>>)
       IN us' = [us EXCEPT !.pc = "answered",
                           !.read_ok = read_ok,
                           !.write_ok = write_ok,
                           !.response = out.response,
                           !.writes = out.writes]
  /\ UNCHANGED <<runs, ex, pv, ps>>

NextUpdate == UpdateSheetSummary

SpecUpdate == InitUpdate /\ [][NextUpdate]_vars

(***************************************************************************)
(* Properties of update_sheet_summary, checked under SpecUpdate            *)
(***************************************************************************)
\* the Milestone rows of the sheet whose Jira ID is, after normalisation,
\* the Jira ID of the posted body
RowsOfPostedId ==
  MatchingRows(us.sheet.rows,
               normalize_jira_key(Strip(us.body["jira_id"])))

\* C17: once a request that carries a Jira ID is answered, the calls to
\* the sheet service having returned: if a Milestone
\* row of the sheet has that Jira ID after normalisation and the sheet has
\* a Status Update column, exactly one cell was written, the Status Update
\* column of the first such row (sheet row = row index + 2, the index
\* counted from 0), with the leadership summary, and the answer has status
\* "updated"; if no Milestone row matches, the answer is a 404 and no cell
\* was written.
C17_SummaryWritten ==
  (/\ us.pc = "answered"
   /\ us.read_ok
   /\ us.write_ok
   /\ UpdateSheetRequestFields \cup {"jira_id"} \subseteq DOMAIN us.body) =>
    /\ (RowsOfPostedId # {} /\ "Status Update" \in Range(us.sheet.headers)) =>
         /\ us.response.status = "updated"
         /\ Len(us.writes) = 1
         /\ us.writes[1].cell =
              <<"Sheet1!",
                ColumnLetters[ColumnOf(us.sheet.headers, "Status Update")],
                (Nth(RowsOfPostedId, 1) - 1) + 2>>
         /\ us.writes[1].value = us.body["leadership_summary"]
    /\ RowsOfPostedId = {} =>
         /\ us.response.status_code = 404
         /\ us.writes = <<>>

====
